---- MODULE Spec2Model ----
(***************************************************************************)
(* KZG10 polynomial commitment scheme of snarkVM                           *)
(* (polycommit/src/kzg10/mod.rs): Setup, Trim, Commit, Open, Check and     *)
(* BatchCheck over a small prime-order pairing group.                      *)
(*                                                                         *)
(* The scalar field Fr is Z_FrModulus.  G1, G2 and the target group GT are *)
(* cyclic groups of order FrModulus; an element is represented by its      *)
(* discrete logarithm with respect to a fixed generator of its group and   *)
(* all three groups are written additively, so the identity is 0 and the   *)
(* pairing of a*G and b*H is (a*b)*e(G,H).                                 *)
(***************************************************************************)
EXTENDS Integers, Sequences, FiniteSets, TLC

\* ------------------------------------------------------------------ bounds

\* order of the scalar field E::Fr (and of G1, G2, GT)
FrModulus == 3
\* largest max_degree handed to Setup
MaxDegree == 2
\* number of outputs after which the randomness source repeats
RngLen == 4
\* longest explicit list of a KZG10DegreeBoundsConfig::LIST
MaxListLen == 2
\* largest number of tuples handed to BatchCheck
MaxBatch == 2
\* largest max_degree handed to get_list on its own
MaxBoundDegree == 6

\* ------------------------------------------------------------------ state

VARIABLES
    rng,        \* the randomness source shared by the calls
    terminator, \* the AtomicBool handed to Commit, which another thread may set
    setupOut,   \* the last Setup call: its inputs and its result
    trimOut,    \* the last Trim call: its input and its result
    commitOut,  \* the last Commit call: its inputs and its result
    openOut,    \* the last Open call: its inputs and its result
    checkOut,   \* the last Check call: its inputs and its result
    batch,      \* the BatchCheck call in progress or finished, turn by turn
    batchOut,   \* the last BatchCheck call over whole slices
    listOut,    \* the last get_list call
    boundsOut,  \* the last check_degrees_and_bounds call
    witnessOut  \* the last compute_witness_polynomial call

vars == <<rng, terminator, setupOut, trimOut, commitOut, openOut, checkOut,
          batch, batchOut, listOut, boundsOut, witnessOut>>

\* ------------------------------------------------------------------ values

Ok(x) == [tag |-> "Ok", val |-> x]
Err(e) == [tag |-> "Err", err |-> e]
\* Error::TooManyCoefficients { num_coefficients, num_powers }
TooManyCoefficients(n, m) ==
    [tag |-> "Err", err |-> "TooManyCoefficients", num_coefficients |-> n, num_powers |-> m]
\* Error::HidingBoundToolarge { hiding_poly_degree, num_powers }
HidingBoundToolarge(d, m) ==
    [tag |-> "Err", err |-> "HidingBoundToolarge", hiding_poly_degree |-> d, num_powers |-> m]
IsErr(res, e) == res.tag = "Err" /\ res.err = e
Panic == [tag |-> "Panic"]
None == [tag |-> "None"]
Some(x) == [tag |-> "Some", val |-> x]

Min(a, b) == IF a <= b THEN a ELSE b

\* ------------------------------------------------------------------ field and groups

Fr == 0 .. (FrModulus - 1)
FAdd(a, b) == (a + b) % FrModulus
FSub(a, b) == (a - b + FrModulus) % FrModulus
FMul(a, b) == (a * b) % FrModulus
FNeg(a) == (FrModulus - a) % FrModulus

RECURSIVE FPow(_, _)
FPow(a, n) == IF n = 0 THEN 1 % FrModulus ELSE FMul(a, FPow(a, n - 1))

\* Field::inverse: None for zero
FInverse(a) ==
    IF a = 0 THEN None ELSE Some(CHOOSE b \in Fr : FMul(a, b) = 1)

\* group elements of G1 and G2 (projective and affine forms are the same point)
G1 == Fr
G2 == Fr
GAdd(P, Q) == FAdd(P, Q)
GSub(P, Q) == FSub(P, Q)
GNeg(P) == FNeg(P)
\* scalar multiplication P.mul(s)
GMul(P, s) == FMul(P, s)
\* the bilinear pairing E::pairing(P, Q), an element of GT
Pairing(P, Q) == FMul(P, Q)
\* AffineCurve::prepare / PairingCurve::prepare: the cached form of a point
Prepare(P) == [prepared |-> P]

RECURSIVE SumPairings(_)
\* E::product_of_pairings over a sequence of (prepared G1, prepared G2) pairs
ProductOfPairings(pairs) == SumPairings(pairs)
SumPairings(pairs) ==
    IF pairs = <<>> THEN 0
    ELSE FAdd(Pairing(Head(pairs)[1].prepared, Head(pairs)[2].prepared),
              SumPairings(Tail(pairs)))
\* the identity of GT
GTIsOne(t) == t = 0

\* ------------------------------------------------------------------ randomness source

\* A randomness source is a fixed stream of outputs and a read position.
RngStates == [stream : [1 .. RngLen -> Fr], pos : {0}]
RngNext(r) == [r EXCEPT !.pos = r.pos + 1]
RngOut(r) == r.stream[(r.pos % RngLen) + 1]

\* Fr::rand(rng)
FrRand(r) == [val |-> RngOut(r), rng |-> RngNext(r)]
\* G1Projective::rand(rng), G2Projective::rand(rng): a point other than the identity
GRand(r) == [val |-> 1 + (RngOut(r) % (FrModulus - 1)), rng |-> RngNext(r)]
\* u128::rand(rng).into(): a 128-bit value as a field element
U128Rand(r) == [val |-> RngOut(r), rng |-> RngNext(r)]

\* ------------------------------------------------------------------ polynomials

\* A polynomial is the sequence of its coefficients, low degree first, with no
\* zero at the high end; the zero polynomial has no coefficients.
RECURSIVE from_coefficients_vec(_)
from_coefficients_vec(cs) ==
    IF cs # <<>> /\ cs[Len(cs)] = 0 THEN from_coefficients_vec(SubSeq(cs, 1, Len(cs) - 1))
    ELSE cs

PolyIsZero(p) == p = <<>>
\* Polynomial::degree: 0 for the zero polynomial
Degree(p) == IF PolyIsZero(p) THEN 0 ELSE Len(p) - 1

RECURSIVE Evaluate(_, _)
\* Polynomial::evaluate (Horner)
Evaluate(p, z) == IF p = <<>> THEN 0 ELSE FAdd(Head(p), FMul(z, Evaluate(Tail(p), z)))

Coeff(p, i) == IF i + 1 <= Len(p) THEN p[i + 1] ELSE 0
\* a*p + b*q
PolyLinComb(a, p, b, q) ==
    from_coefficients_vec(
        [i \in 1 .. (IF Len(p) >= Len(q) THEN Len(p) ELSE Len(q)) |->
            FAdd(FMul(a, Coeff(p, i - 1)), FMul(b, Coeff(q, i - 1)))])
\* p * (x - z) + c
MulLinearAdd(w, z, c) ==
    from_coefficients_vec(
        [i \in 1 .. (Len(w) + 1) |->
            FAdd(FAdd(IF i >= 2 THEN Coeff(w, i - 2) ELSE 0, FMul(FNeg(z), Coeff(w, i - 1))),
                 IF i = 1 THEN c ELSE 0)])

RECURSIVE DivStep(_, _, _, _)
\* synthetic division of p by (x - z): the quotient coefficients of degree
\* 0 .. k-1, given carry = the quotient coefficient of degree k
DivStep(p, z, k, carry) ==
    IF k = 0 THEN <<>>
    ELSE LET q == FAdd(p[k + 1], FMul(z, carry))
         IN  Append(DivStep(p, z, k - 1, q), q)
\* polynomial / divisor for the divisor x - z: the quotient, remainder dropped
DivLinear(p, z) ==
    IF PolyIsZero(p) \/ Degree(p) < 1 THEN <<>>
    ELSE DivStep(p, z, Len(p) - 1, 0)

RECURSIVE SeqsUpTo(_, _)
SeqsUpTo(S, n) ==
    IF n = 0 THEN {<<>>}
    ELSE LET shorter == SeqsUpTo(S, n - 1)
         IN  shorter \cup {Append(s, x) : s \in {t \in shorter : Len(t) = n - 1}, x \in S}
\* every polynomial with at most n coefficients
Polys(n) == {p \in SeqsUpTo(Fr, n) : p = <<>> \/ p[Len(p)] # 0}

\* ------------------------------------------------------------------ degree bounds

ConfigALL == [kind |-> "ALL", list |-> <<>>]
ConfigMARLIN == [kind |-> "MARLIN", list |-> <<>>]
ConfigLIST(v) == [kind |-> "LIST", list |-> v]
ConfigNONE == [kind |-> "NONE", list |-> <<>>]

RECURSIVE MarlinLoopStrict(_, _, _)
\* a slip: the loop stops one domain size early when cur - 2 = max_degree
MarlinLoopStrict(cur, max_degree, sizes) ==
    IF cur - 2 < max_degree
    THEN MarlinLoopStrict(cur * 2, max_degree, Append(sizes, cur - 2))
    ELSE sizes

RECURSIVE MarlinLoopDomainSizes(_, _, _)
\* a slip: the domain size itself is pushed, not the degree bound cur - 2
MarlinLoopDomainSizes(cur, max_degree, sizes) ==
    IF cur - 2 <= max_degree
    THEN MarlinLoopDomainSizes(cur * 2, max_degree, Append(sizes, cur))
    ELSE sizes

RECURSIVE MarlinLoop(_, _, _)
\* the while loop of the MARLIN arm: domain sizes cur = 2, 4, 8, ...
MarlinLoop(cur, max_degree, sizes) ==
    IF cur - 2 <= max_degree
    THEN MarlinLoop(cur * 2, max_degree, Append(sizes, cur - 2))
    ELSE sizes

\* KZG10DegreeBoundsConfig::get_list
get_list(config, max_degree) ==
    CASE config.kind = "ALL" -> [i \in 1 .. max_degree |-> i - 1]
      [] config.kind = "MARLIN" -> MarlinLoop(2, max_degree, <<>>)
      [] config.kind = "LIST" -> config.list
      [] config.kind = "NONE" -> <<>>

\* ------------------------------------------------------------------ Setup

RECURSIVE PowersOfBetaLoopLate(_, _, _, _)
\* a slip: cur is multiplied by beta before it is pushed
PowersOfBetaLoopLate(powers, cur, beta, n) ==
    IF n = 0 THEN powers
    ELSE PowersOfBetaLoopLate(Append(powers, FMul(cur, beta)), FMul(cur, beta), beta, n - 1)

RECURSIVE PowersOfBetaLoop(_, _, _, _)
\* the loop that pushes cur and multiplies it by beta, n times
PowersOfBetaLoop(powers, cur, beta, n) ==
    IF n = 0 THEN powers
    ELSE PowersOfBetaLoop(Append(powers, cur), FMul(cur, beta), beta, n - 1)

\* FixedBaseMSM::multi_scalar_mul: base * scalar for every scalar
FixedBaseMSM(base, scalars) == [i \in 1 .. Len(scalars) |-> GMul(base, scalars[i])]

\* a Vec turned into the map index -> element (into_iter().enumerate().collect())
Enumerate(v) == [i \in 0 .. (Len(v) - 1) |-> v[i + 1]]
\* a slip: the first bound of the list gets no entry
ListKeysAfterFirst(list) == {list[k] : k \in 2 .. Len(list)}
\* the keys of a map that receives one insert per element of the list
ListKeys(list) == {list[k] : k \in 1 .. Len(list)}

\* KZG10::setup after its degree check: sampling and the computation of the
\* parameters; returns the result and the randomness source as it leaves it
setup_parameters(max_degree, config, produce_g2_powers, rng0) ==
    LET d1 == FrRand(rng0)
        d2 == GRand(d1.rng)
        d3 == GRand(d2.rng)
        d4 == GRand(d3.rng)
        beta == d1.val
        g == d2.val
        gamma_g == d3.val
        h == d4.val
        powers_of_beta == PowersOfBetaLoop(<<1 % FrModulus>>, beta, beta, max_degree)
        powers_of_g == FixedBaseMSM(g, powers_of_beta)
        gamma_powers == FixedBaseMSM(gamma_g, powers_of_beta)
        powers_of_gamma_g ==
            Append(gamma_powers, GMul(gamma_powers[Len(gamma_powers)], beta))
        list == get_list(config, max_degree)
        with_bounds == config # ConfigNONE
        \* powers_of_g[max_degree - i]: the subtraction underflows, or the index
        \* is out of range, when i > max_degree
        bad_index == with_bounds /\ \E k \in 1 .. Len(list) : list[k] > max_degree
        \* beta.pow(max_degree - i).inverse().unwrap()
        bad_inverse ==
            /\ with_bounds /\ produce_g2_powers
            /\ \E k \in 1 .. Len(list) :
                   FInverse(FPow(beta, max_degree - list[k])).tag = "None"
    IN  IF bad_index \/ bad_inverse THEN [res |-> Panic, rng |-> d4.rng]
        ELSE
        [res |-> Ok([
            powers_of_g |-> powers_of_g,
            powers_of_gamma_g |-> Enumerate(powers_of_gamma_g),
            h |-> h,
            beta_h |-> GMul(h, beta),
            supported_degree_bounds |-> IF with_bounds THEN list ELSE <<>>,
            inverse_powers_of_g |->
                IF with_bounds
                THEN [i \in ListKeys(list) |-> powers_of_g[(max_degree - i) + 1]]
                ELSE <<>>,
            inverse_neg_powers_of_h |->
                IF produce_g2_powers /\ with_bounds
                THEN [i \in ListKeys(list) |->
                         GMul(h, FInverse(FPow(beta, max_degree - i)).val)]
                ELSE <<>>,
            prepared_h |-> Prepare(h),
            prepared_beta_h |-> Prepare(GMul(h, beta))]),
         rng |-> d4.rng]

\* a slip: no degree check before the sampling
setup_unchecked(max_degree, config, produce_g2_powers, rng0) ==
    setup_parameters(max_degree, config, produce_g2_powers, rng0)

\* KZG10::setup
setup(max_degree, config, produce_g2_powers, rng0) ==
    IF max_degree < 1 THEN [res |-> Err("DegreeIsZero"), rng |-> rng0]
    ELSE setup_parameters(max_degree, config, produce_g2_powers, rng0)

\* ------------------------------------------------------------------ Trim

\* Powers::size
PowersSize(powers) == Len(powers.powers_of_g)

\* a slip: the requested degree taken as it is
trim_as_requested(requested_degree) == requested_degree

\* the degree KZG10::trim works with: a requested degree of 1 is raised by one
trim_degree(requested_degree) ==
    IF requested_degree = 1 THEN requested_degree + 1 ELSE requested_degree

\* KZG10::trim
trim(pp, requested_degree) ==
    LET supported_degree == trim_degree(requested_degree)
    IN  \* pp.powers_of_g[..=supported_degree] and pp.powers_of_gamma_g[&i]
        IF supported_degree + 1 > Len(pp.powers_of_g)
           \/ \E i \in 0 .. supported_degree : i \notin DOMAIN pp.powers_of_gamma_g
        THEN Panic
        ELSE Ok([
            powers |-> [
                powers_of_g |-> SubSeq(pp.powers_of_g, 1, supported_degree + 1),
                powers_of_gamma_g |->
                    [i \in 1 .. (supported_degree + 1) |-> pp.powers_of_gamma_g[i - 1]]],
            vk |-> [
                g |-> pp.powers_of_g[1],
                gamma_g |-> pp.powers_of_gamma_g[0],
                h |-> pp.h,
                beta_h |-> pp.beta_h,
                prepared_h |-> pp.prepared_h,
                prepared_beta_h |-> pp.prepared_beta_h]])

\* ------------------------------------------------------------------ Commit

\* a slip: the degree compared with the number of powers
check_degree_off_by_one(degree, num_powers) ==
    IF degree > num_powers THEN TooManyCoefficients(degree, num_powers) ELSE Ok(<<>>)

\* KZG10::check_degree_is_too_large
check_degree_is_too_large(degree, num_powers) ==
    LET num_coefficients == degree + 1
    IN  IF num_coefficients > num_powers
        THEN TooManyCoefficients(num_coefficients, num_powers)
        ELSE Ok(<<>>)

\* KZG10::check_hiding_bound
check_hiding_bound(hiding_poly_degree, num_powers) ==
    IF hiding_poly_degree = 0 THEN Err("HidingBoundIsZero")
    ELSE IF hiding_poly_degree >= num_powers
    THEN HidingBoundToolarge(hiding_poly_degree, num_powers)
    ELSE Ok(<<>>)

RECURSIVE SkipLoop(_, _)
\* the while loop of skip_leading_zeros_and_convert_to_bigints: the condition
\* reads coeffs[num_leading_zeros] before it compares the index with the length
SkipLoop(coeffs, num_leading_zeros) ==
    IF num_leading_zeros >= Len(coeffs) THEN Panic
    ELSE IF coeffs[num_leading_zeros + 1] = 0 /\ num_leading_zeros < Len(coeffs)
    THEN SkipLoop(coeffs, num_leading_zeros + 1)
    ELSE Ok(num_leading_zeros)

\* a slip: the internal (Montgomery, R = 2) form of a coefficient is taken for
\* its canonical integer
convert_to_bigints_raw(coeffs) == [i \in 1 .. Len(coeffs) |-> FMul(coeffs[i], 2)]

\* convert_to_bigints: the canonical integer of every coefficient
convert_to_bigints(coeffs) == coeffs

\* skip_leading_zeros_and_convert_to_bigints
skip_leading_zeros_and_convert_to_bigints(p) ==
    LET n == SkipLoop(p, 0)
    IN  IF n.tag = "Panic" THEN Panic
        ELSE Ok([num_leading_zeros |-> n.val,
                 coeffs |-> convert_to_bigints(SubSeq(p, n.val + 1, Len(p)))])

RECURSIVE MsmSum(_, _, _)
MsmSum(bases, scalars, n) ==
    IF n = 0 THEN 0
    ELSE GAdd(MsmSum(bases, scalars, n - 1), GMul(bases[n], scalars[n]))
\* VariableBaseMSM::multi_scalar_mul: the sum of bases[i] * scalars[i] over the
\* pairs of the two slices
VariableBaseMSM(bases, scalars) == MsmSum(bases, scalars, Min(Len(bases), Len(scalars)))

\* the slice s[k..]
SliceFrom(s, k) == SubSeq(s, k + 1, Len(s))

RandomnessEmpty == [blinding_polynomial |-> <<>>]
\* Randomness::is_hiding
IsHiding(randomness) == ~PolyIsZero(randomness.blinding_polynomial)

RECURSIVE RandCoeffs(_, _)
\* n field elements drawn one after the other
RandCoeffs(r, n) ==
    IF n = 0 THEN [val |-> <<>>, rng |-> r]
    ELSE LET d == FrRand(r)
             rest == RandCoeffs(d.rng, n - 1)
         IN  [val |-> <<d.val>> \o rest.val, rng |-> rest.rng]
\* Randomness::rand: a blinding polynomial of exactly the requested degree,
\* random coefficients with a nonzero leading one
RandomnessRand(hiding_degree, r) ==
    LET low == RandCoeffs(r, hiding_degree)
        top == FrRand(low.rng)
    IN  [val |-> [blinding_polynomial |->
                     Append(low.val, 1 + (top.val % (FrModulus - 1)))],
         rng |-> top.rng]

\* a slip: the terminator is taken as clear without reading it
load_always_clear(flag) == FALSE

\* terminator.load(Ordering::Relaxed): the value of the flag at the time of the load
load(flag) == flag

\* KZG10::commit.  hiding_bound and rng_opt are None or Some(_); poll1 and poll2
\* are the values the two loads of the terminator return.
commit(powers, polynomial, hiding_bound, poll1, poll2, rng_opt) ==
    LET same_rng == IF rng_opt.tag = "Some" THEN rng_opt.val ELSE None
        Out(res, r) == [res |-> res, rng |-> r]
        degree_check == check_degree_is_too_large(Degree(polynomial), PowersSize(powers))
        skipped == skip_leading_zeros_and_convert_to_bigints(polynomial)
        plain == VariableBaseMSM(SliceFrom(powers.powers_of_g, skipped.val.num_leading_zeros),
                                 skipped.val.coeffs)
        hiding == hiding_bound.tag = "Some"
        sampled == IF hiding THEN RandomnessRand(hiding_bound.val, rng_opt.val)
                   ELSE [val |-> RandomnessEmpty, rng |-> same_rng]
        randomness == sampled.val
        bound_check == check_hiding_bound(Degree(randomness.blinding_polynomial),
                                          Len(powers.powers_of_gamma_g))
        random_ints == convert_to_bigints(randomness.blinding_polynomial)
        random_commitment == VariableBaseMSM(powers.powers_of_gamma_g, random_ints)
    IN  IF degree_check.tag = "Err" THEN Out(degree_check, same_rng)
        ELSE IF skipped.tag = "Panic" THEN Out(Panic, same_rng)
        ELSE IF poll1 THEN Out(Err("Terminated"), same_rng)
        ELSE IF hiding /\ rng_opt.tag = "None" THEN Out(Err("MissingRng"), same_rng)
        ELSE IF hiding /\ bound_check.tag = "Err" THEN Out(bound_check, sampled.rng)
        ELSE IF poll2 THEN Out(Err("Terminated"), sampled.rng)
        ELSE Out(Ok([commitment |-> GAdd(plain, random_commitment),
                     randomness |-> randomness]),
                 sampled.rng)

\* ------------------------------------------------------------------ Open

\* a slip: the blinding polynomial is never divided, so no proof is hiding
compute_witness_polynomial_never_hiding(polynomial, point, randomness) ==
    [witness_polynomial |-> DivLinear(polynomial, point),
     random_witness_polynomial |-> None]

\* a slip: the divisor is built from point instead of -point
compute_witness_polynomial_plus_point(polynomial, point, randomness) ==
    [witness_polynomial |-> DivLinear(polynomial, FNeg(point)),
     random_witness_polynomial |->
        IF IsHiding(randomness)
        THEN Some(DivLinear(randomness.blinding_polynomial, FNeg(point)))
        ELSE None]

\* KZG10::compute_witness_polynomial
compute_witness_polynomial(polynomial, point, randomness) ==
    [witness_polynomial |-> DivLinear(polynomial, point),
     random_witness_polynomial |->
        IF IsHiding(randomness)
        THEN Some(DivLinear(randomness.blinding_polynomial, point))
        ELSE None]

\* KZG10::open_with_witness_polynomial
open_with_witness_polynomial(powers, point, randomness, witness_polynomial, hiding_witness_polynomial) ==
    LET degree_check ==
            check_degree_is_too_large(Degree(witness_polynomial), PowersSize(powers))
        skipped == skip_leading_zeros_and_convert_to_bigints(witness_polynomial)
        w == VariableBaseMSM(SliceFrom(powers.powers_of_g, skipped.val.num_leading_zeros),
                             skipped.val.coeffs)
        hiding == hiding_witness_polynomial.tag = "Some"
        blinding_evaluation == Evaluate(randomness.blinding_polynomial, point)
        random_witness_coeffs == convert_to_bigints(hiding_witness_polynomial.val)
    IN  IF degree_check.tag = "Err" THEN degree_check
        ELSE IF skipped.tag = "Panic" THEN Panic
        ELSE Ok([w |-> IF hiding
                       THEN GAdd(w, VariableBaseMSM(powers.powers_of_gamma_g,
                                                    random_witness_coeffs))
                       ELSE w,
                 random_v |-> IF hiding THEN Some(blinding_evaluation) ELSE None])

\* KZG10::open
open(powers, polynomial, point, rand) ==
    LET degree_check == check_degree_is_too_large(Degree(polynomial), PowersSize(powers))
        witness == compute_witness_polynomial(polynomial, point, rand)
    IN  IF degree_check.tag = "Err" THEN degree_check
        ELSE open_with_witness_polynomial(powers, point, rand, witness.witness_polynomial,
                                          witness.random_witness_polynomial)

\* ------------------------------------------------------------------ Check

\* a slip: the claimed value is not subtracted from the commitment
check_without_value(vk, commitment, point, value, proof) ==
    LET inner == IF proof.random_v.tag = "Some"
                 THEN GSub(commitment, GMul(vk.gamma_g, proof.random_v.val))
                 ELSE commitment
        lhs == Pairing(inner, vk.h)
        rhs == Pairing(proof.w, GSub(vk.beta_h, GMul(vk.h, point)))
    IN  Ok(lhs = rhs)

\* a slip: the point is not subtracted on the right-hand side
check_unshifted_point(vk, commitment, point, value, proof) ==
    LET inner0 == GSub(commitment, GMul(vk.g, value))
        inner == IF proof.random_v.tag = "Some"
                 THEN GSub(inner0, GMul(vk.gamma_g, proof.random_v.val))
                 ELSE inner0
        lhs == Pairing(inner, vk.h)
        rhs == Pairing(proof.w, vk.beta_h)
    IN  Ok(lhs = rhs)

\* KZG10::check
check(vk, commitment, point, value, proof) ==
    LET inner0 == GSub(commitment, GMul(vk.g, value))
        inner == IF proof.random_v.tag = "Some"
                 THEN GSub(inner0, GMul(vk.gamma_g, proof.random_v.val))
                 ELSE inner0
        lhs == Pairing(inner, vk.h)
        rhs == Pairing(proof.w, GSub(vk.beta_h, GMul(vk.h, point)))
    IN  Ok(lhs = rhs)

\* ------------------------------------------------------------------ BatchCheck

\* a slip: the first randomizer starts at zero instead of one
batch_start_zero_randomizer ==
    [total_c |-> 0, total_w |-> 0, randomizer |-> 0,
     g_multiplier |-> 0, gamma_g_multiplier |-> 0]

\* the accumulators of KZG10::batch_check before its loop
batch_start ==
    [total_c |-> 0, total_w |-> 0, randomizer |-> 1 % FrModulus,
     g_multiplier |-> 0, gamma_g_multiplier |-> 0]

\* a slip: the value is accumulated without its randomizer
batch_turn_unscaled_value(acc, c, z, v, proof, r) ==
    LET w == proof.w
        temp == GAdd(GMul(w, z), c)
        next == U128Rand(r)
    IN  [acc |-> [
            total_c |-> GAdd(acc.total_c, GMul(temp, acc.randomizer)),
            total_w |-> GAdd(acc.total_w, GMul(w, acc.randomizer)),
            randomizer |-> next.val,
            g_multiplier |-> FAdd(acc.g_multiplier, v),
            gamma_g_multiplier |->
                IF proof.random_v.tag = "Some"
                THEN FAdd(acc.gamma_g_multiplier, FMul(acc.randomizer, proof.random_v.val))
                ELSE acc.gamma_g_multiplier],
         rng |-> next.rng]

\* one turn of the loop of KZG10::batch_check, for the tuple (c, z, v, proof)
batch_turn(acc, c, z, v, proof, r) ==
    LET w == proof.w
        temp == GAdd(GMul(w, z), c)
        next == U128Rand(r)
    IN  [acc |-> [
            total_c |-> GAdd(acc.total_c, GMul(temp, acc.randomizer)),
            total_w |-> GAdd(acc.total_w, GMul(w, acc.randomizer)),
            randomizer |-> next.val,
            g_multiplier |-> FAdd(acc.g_multiplier, FMul(acc.randomizer, v)),
            gamma_g_multiplier |->
                IF proof.random_v.tag = "Some"
                THEN FAdd(acc.gamma_g_multiplier, FMul(acc.randomizer, proof.random_v.val))
                ELSE acc.gamma_g_multiplier],
         rng |-> next.rng]

\* a slip: g * g_multiplier is not subtracted from total_c
batch_finish_without_values(vk, acc) ==
    LET total_c == GSub(acc.total_c, GMul(vk.gamma_g, acc.gamma_g_multiplier))
        total_w == GNeg(acc.total_w)
    IN  Ok(GTIsOne(ProductOfPairings(<<
            <<Prepare(total_w), vk.prepared_beta_h>>,
            <<Prepare(total_c), vk.prepared_h>> >>)))

\* a slip: total_w enters the pairing product without its negation
batch_finish_unnegated(vk, acc) ==
    LET total_c == GSub(GSub(acc.total_c, GMul(vk.g, acc.g_multiplier)),
                        GMul(vk.gamma_g, acc.gamma_g_multiplier))
        total_w == acc.total_w
    IN  Ok(GTIsOne(ProductOfPairings(<<
            <<Prepare(total_w), vk.prepared_beta_h>>,
            <<Prepare(total_c), vk.prepared_h>> >>)))

\* KZG10::batch_check after its loop: the two subtractions and the pairing product
batch_finish(vk, acc) ==
    LET total_c == GSub(GSub(acc.total_c, GMul(vk.g, acc.g_multiplier)),
                        GMul(vk.gamma_g, acc.gamma_g_multiplier))
        total_w == GNeg(acc.total_w)
    IN  Ok(GTIsOne(ProductOfPairings(<<
            <<Prepare(total_w), vk.prepared_beta_h>>,
            <<Prepare(total_c), vk.prepared_h>> >>)))

RECURSIVE BatchLoop(_, _, _, _, _, _, _, _)
\* the loop of KZG10::batch_check over the zipped slices, from tuple i on
BatchLoop(acc, r, i, m, commitments, points, values, proofs) ==
    IF i > m THEN [acc |-> acc, rng |-> r]
    ELSE LET t == batch_turn(acc, commitments[i], points[i], values[i], proofs[i], r)
         IN  BatchLoop(t.acc, t.rng, i + 1, m, commitments, points, values, proofs)

\* a slip: slices of different lengths are refused instead of zipped
batch_check_equal_lengths(vk, commitments, points, values, proofs, r) ==
    LET m == Len(commitments)
        looped == BatchLoop(batch_start, r, 1, m, commitments, points, values, proofs)
    IN  IF Len(points) # m \/ Len(values) # m \/ Len(proofs) # m
        THEN [res |-> Err("LengthMismatch"), rng |-> r]
        ELSE [res |-> batch_finish(vk, looped.acc), rng |-> looped.rng]

\* KZG10::batch_check
batch_check(vk, commitments, points, values, proofs, r) ==
    LET m == Min(Min(Len(commitments), Len(points)), Min(Len(values), Len(proofs)))
        looped == BatchLoop(batch_start, r, 1, m, commitments, points, values, proofs)
    IN  [res |-> batch_finish(vk, looped.acc), rng |-> looped.rng]

\* ------------------------------------------------------------------ degree-bound validator

\* Error::UnsupportedDegreeBound(bound)
UnsupportedDegreeBound(b) == [tag |-> "Err", err |-> "UnsupportedDegreeBound", bound |-> b]
\* Error::IncorrectDegreeBound { poly_degree, degree_bound, supported_degree, label }
IncorrectDegreeBound(poly_degree, degree_bound, supported_degree, label) ==
    [tag |-> "Err", err |-> "IncorrectDegreeBound", poly_degree |-> poly_degree,
     degree_bound |-> degree_bound, supported_degree |-> supported_degree, label |-> label]

\* a polynomial with its label and its optional degree bound
LabeledPolynomial(label, polynomial, degree_bound) ==
    [label |-> label, polynomial |-> polynomial, degree_bound |-> degree_bound]

RECURSIVE BisectLoop(_, _, _, _)
\* slice::binary_search by bisection of [left, right) with a return on equality
BisectLoop(s, x, left, right) ==
    IF left >= right THEN FALSE
    ELSE LET mid == left + ((right - left) \div 2)
         IN  IF s[mid + 1] < x THEN BisectLoop(s, x, mid + 1, right)
             ELSE IF s[mid + 1] > x THEN BisectLoop(s, x, left, mid)
             ELSE TRUE

RECURSIVE HalvingLoop(_, _, _, _)
\* slice::binary_search by halving: the base moves to mid unless s[mid] > x
HalvingLoop(s, x, base, size) ==
    IF size <= 1 THEN base
    ELSE LET half == size \div 2
             mid == base + half
         IN  HalvingLoop(s, x, IF s[mid + 1] > x THEN base ELSE mid, size - half)

\* the search procedures a build of the standard library may carry
SearchVariants == {"bisect", "halving"}

\* enforced_degree_bounds.binary_search(&bound).is_ok(): on a sorted slice the
\* membership of x; on any other slice whatever the procedure of the build finds
binary_search(s, x, variant) ==
    IF variant = "bisect" THEN BisectLoop(s, x, 0, Len(s))
    ELSE Len(s) > 0 /\ s[HalvingLoop(s, x, 0, Len(s)) + 1] = x

\* KZG10::check_degrees_and_bounds; enforced_degree_bounds is None or Some(slice)
check_degrees_and_bounds(supported_degree, max_degree, enforced_degree_bounds, p, variant) ==
    IF p.degree_bound.tag = "Some"
    THEN LET bound == p.degree_bound.val
         IN  IF enforced_degree_bounds.tag = "None" THEN UnsupportedDegreeBound(bound)
             ELSE IF ~binary_search(enforced_degree_bounds.val, bound, variant)
             THEN UnsupportedDegreeBound(bound)
             ELSE IF bound < Degree(p.polynomial) \/ bound > max_degree
             THEN IncorrectDegreeBound(Degree(p.polynomial), bound, supported_degree, p.label)
             ELSE Ok(<<>>)
    ELSE Ok(<<>>)

\* ------------------------------------------------------------------ calls

NotCalled == [tag |-> "NotCalled"]
Called(in, res) == [tag |-> "Called", in |-> in, res |-> res]
\* a call that also reads the randomness source: rng is the source as the call left it
CalledRng(in, res, r) == [tag |-> "Called", in |-> in, res |-> res, rng |-> r]

Returned(out) == out.tag = "Called" /\ out.res.tag = "Ok"

Init ==
    /\ rng \in RngStates
    /\ setupOut = NotCalled
    /\ trimOut = NotCalled
    /\ commitOut = NotCalled
    /\ openOut = NotCalled
    /\ checkOut = NotCalled
    /\ batch = NotCalled
    /\ terminator = FALSE
    /\ batchOut = NotCalled
    /\ listOut = NotCalled
    /\ boundsOut = NotCalled
    /\ witnessOut = NotCalled

\* the explicit lists a caller may configure
BoundLists == SeqsUpTo(0 .. (MaxDegree + 1), MaxListLen)
AllConfigs == {ConfigALL, ConfigMARLIN, ConfigNONE} \cup {ConfigLIST(v) : v \in BoundLists}

SetupWith(degrees, configs, flags) ==
    /\ setupOut = NotCalled
    /\ \E max_degree \in degrees, config \in configs, produce_g2_powers \in flags :
        LET out == setup(max_degree, config, produce_g2_powers, rng)
        IN  /\ setupOut' = CalledRng([max_degree |-> max_degree, config |-> config,
                                      produce_g2_powers |-> produce_g2_powers, rng |-> rng],
                                     out.res, out.rng)
            /\ rng' = out.rng
    /\ UNCHANGED <<trimOut, commitOut, openOut, checkOut, batch, terminator, batchOut, listOut, boundsOut, witnessOut>>

\* Trim for a requested degree within the range of the parameters
TrimWith(degrees) ==
    /\ Returned(setupOut)
    /\ trimOut = NotCalled
    /\ \E supported_degree \in degrees :
        /\ supported_degree <= setupOut.in.max_degree
        /\ trimOut' = Called([supported_degree |-> supported_degree],
                          trim(setupOut.res.val, supported_degree))
    /\ UNCHANGED <<rng, setupOut, commitOut, openOut, checkOut, batch, terminator, batchOut, listOut, boundsOut, witnessOut>>

\* the polynomials handed to Commit: every degree up to MaxDegree + 1
InputPolys == Polys(MaxDegree + 2)
HidingBounds == {None} \cup {Some(hb) : hb \in 0 .. (MaxDegree + 1)}

CommitWith(polys, hiding_bounds, polls, with_rng) ==
    /\ Returned(trimOut)
    /\ commitOut = NotCalled
    /\ \E polynomial \in polys, hiding_bound \in hiding_bounds,
          poll1 \in polls, poll2 \in polls, has_rng \in with_rng :
        LET rng_opt == IF has_rng THEN Some(rng) ELSE None
            out == commit(trimOut.res.val.powers, polynomial, hiding_bound,
                          poll1, poll2, rng_opt)
        IN  /\ commitOut' = CalledRng([polynomial |-> polynomial,
                                       hiding_bound |-> hiding_bound,
                                       poll1 |-> poll1, poll2 |-> poll2,
                                       rng_opt |-> rng_opt],
                                      out.res, out.rng)
            /\ rng' = IF has_rng THEN out.rng ELSE rng
    /\ UNCHANGED <<setupOut, trimOut, openOut, checkOut, batch, terminator, batchOut, listOut, boundsOut, witnessOut>>

\* ---- Commit next to a thread that sets the terminator, one load at a time

\* what Commit does before its first load: the degree check and the plaintext MSM
commit_reaches_first_load(powers, polynomial) ==
    /\ check_degree_is_too_large(Degree(polynomial), PowersSize(powers)).tag = "Ok"
    /\ skip_leading_zeros_and_convert_to_bigints(polynomial).tag = "Ok"

\* what Commit does between its two loads: the randomness source is taken, the
\* blinding polynomial sampled and its degree checked, then the blinding MSM
commit_reaches_second_load(powers, hiding_bound, rng_opt) ==
    hiding_bound.tag = "Some" =>
        /\ rng_opt.tag = "Some"
        /\ check_hiding_bound(
               Degree(RandomnessRand(hiding_bound.val, rng_opt.val).val.blinding_polynomial),
               Len(powers.powers_of_gamma_g)).tag = "Ok"

\* one load of the terminator: the value the flag had and the value read
Load == [flag |-> terminator, read |-> load(terminator)]

\* the call of Commit up to its first load
CommitBegin ==
    /\ Returned(trimOut)
    /\ commitOut = NotCalled
    /\ \E polynomial \in InputPolys, hiding_bound \in HidingBounds, has_rng \in BOOLEAN :
        LET powers == trimOut.res.val.powers
            rng_opt == IF has_rng THEN Some(rng) ELSE None
            in == [polynomial |-> polynomial, hiding_bound |-> hiding_bound,
                   rng_opt |-> rng_opt, loads |-> <<>>]
            out == commit(powers, polynomial, hiding_bound, FALSE, FALSE, rng_opt)
        IN  commitOut' = IF commit_reaches_first_load(powers, polynomial)
                         THEN [tag |-> "Running", in |-> in]
                         ELSE CalledRng(in, out.res, out.rng)
    /\ UNCHANGED <<rng, terminator, setupOut, trimOut, openOut, checkOut,
                   batch, batchOut, listOut, boundsOut, witnessOut>>

\* the first load and what follows it up to the second load
CommitPoll1 ==
    /\ commitOut.tag = "Running" /\ Len(commitOut.in.loads) = 0
    /\ LET powers == trimOut.res.val.powers
           in == [commitOut.in EXCEPT !.loads = Append(@, Load)]
           out == commit(powers, in.polynomial, in.hiding_bound, Load.read, FALSE, in.rng_opt)
       IN  /\ commitOut' =
                IF ~Load.read /\ commit_reaches_second_load(powers, in.hiding_bound, in.rng_opt)
                THEN [tag |-> "Running", in |-> in]
                ELSE CalledRng(in, out.res, out.rng)
           /\ rng' = IF in.rng_opt.tag = "Some" THEN out.rng ELSE rng
    /\ UNCHANGED <<terminator, setupOut, trimOut, openOut, checkOut,
                   batch, batchOut, listOut, boundsOut, witnessOut>>

\* the second load and the return
CommitPoll2 ==
    /\ commitOut.tag = "Running" /\ Len(commitOut.in.loads) = 1
    /\ LET powers == trimOut.res.val.powers
           in == [commitOut.in EXCEPT !.loads = Append(@, Load)]
           out == commit(powers, in.polynomial, in.hiding_bound, FALSE, Load.read, in.rng_opt)
       IN  commitOut' = CalledRng(in, out.res, out.rng)
    /\ UNCHANGED <<rng, terminator, setupOut, trimOut, openOut, checkOut,
                   batch, batchOut, listOut, boundsOut, witnessOut>>

\* another thread stores true into the terminator
SetTerminator ==
    /\ ~terminator
    /\ terminator' = TRUE
    /\ UNCHANGED <<rng, setupOut, trimOut, commitOut, openOut, checkOut,
                   batch, batchOut, listOut, boundsOut, witnessOut>>

\* Open on the polynomial handed to Commit, with the Randomness Commit returned
\* (the empty Randomness when Commit returned an error).  Open takes no
\* terminator; the value the flag has during the call is kept with the inputs.
Open ==
    /\ Returned(trimOut)
    /\ commitOut.tag = "Called" /\ commitOut.res.tag # "Panic"
    /\ openOut = NotCalled
    /\ \E point \in Fr :
        LET rand == IF Returned(commitOut) THEN commitOut.res.val.randomness
                    ELSE RandomnessEmpty
        IN  openOut' = Called([point |-> point, rand |-> rand, terminator |-> terminator],
                              open(trimOut.res.val.powers, commitOut.in.polynomial,
                                   point, rand))
    /\ UNCHANGED <<rng, setupOut, trimOut, commitOut, checkOut, batch, terminator, batchOut, listOut, boundsOut, witnessOut>>

\* Check of the proof against the claimed value p(point) + delta
Check ==
    /\ Returned(commitOut) /\ Returned(openOut)
    /\ checkOut = NotCalled
    /\ \E delta \in Fr :
        LET value == FAdd(Evaluate(commitOut.in.polynomial, openOut.in.point), delta)
        IN  checkOut' = Called([value |-> value, delta |-> delta],
                               check(trimOut.res.val.vk, commitOut.res.val.commitment,
                                     openOut.in.point, value, openOut.res.val))
    /\ UNCHANGED <<rng, setupOut, trimOut, commitOut, openOut, batch, terminator, batchOut, listOut, boundsOut, witnessOut>>

\* ---- BatchCheck, one turn of its loop at a time

OptFr == {None} \cup {Some(x) : x \in Fr}
Proofs == [w : G1, random_v : OptFr]

BatchBegin ==
    /\ Returned(trimOut)
    /\ batch = NotCalled
    /\ batch' = [tag |-> "Loop", acc |-> batch_start, n |-> 0,
                 failed |-> 0, failed_randomizer |-> 0]
    /\ UNCHANGED <<rng, setupOut, trimOut, commitOut, openOut, checkOut, terminator, batchOut, listOut, boundsOut, witnessOut>>

\* The next tuple of the four slices.  failed counts the tuples so far that
\* Check rejects, failed_randomizer is the randomizer applied to the first.
BatchTurn ==
    /\ batch.tag = "Loop"
    /\ batch.n < MaxBatch
    /\ \E c \in G1, z \in Fr, v \in Fr, proof \in Proofs :
        LET t == batch_turn(batch.acc, c, z, v, proof, rng)
            passes == check(trimOut.res.val.vk, c, z, v, proof).val
        IN  /\ batch' = [batch EXCEPT
                    !.acc = t.acc,
                    !.n = @ + 1,
                    !.failed = IF passes THEN @ ELSE Min(@ + 1, 2),
                    !.failed_randomizer =
                        IF ~passes /\ batch.failed = 0 THEN batch.acc.randomizer ELSE @]
            /\ rng' = t.rng
    /\ UNCHANGED <<setupOut, trimOut, commitOut, openOut, checkOut, terminator, batchOut, listOut, boundsOut, witnessOut>>

BatchEnd ==
    /\ batch.tag = "Loop"
    /\ batch' = [batch EXCEPT !.tag = "Called"] @@
                [res |-> batch_finish(trimOut.res.val.vk, batch.acc)]
    /\ UNCHANGED <<rng, setupOut, trimOut, commitOut, openOut, checkOut, terminator, batchOut, listOut, boundsOut, witnessOut>>

\* BatchCheck over whole slices: n copies of the commitment, point and proof of
\* the Commit and Open calls, each with a claimed value of its own
BatchCall ==
    /\ Returned(commitOut) /\ Returned(openOut)
    /\ batchOut = NotCalled
    /\ \E n \in 0 .. MaxBatch : \E deltas \in [1 .. n -> Fr] :
        LET honest == Evaluate(commitOut.in.polynomial, openOut.in.point)
            in == [commitments |-> [i \in 1 .. n |-> commitOut.res.val.commitment],
                   points |-> [i \in 1 .. n |-> openOut.in.point],
                   values |-> [i \in 1 .. n |-> FAdd(honest, deltas[i])],
                   proofs |-> [i \in 1 .. n |-> openOut.res.val],
                   rng |-> rng]
            out == batch_check(trimOut.res.val.vk, in.commitments, in.points,
                               in.values, in.proofs, rng)
        IN  /\ batchOut' = CalledRng(in, out.res, out.rng)
            /\ rng' = out.rng
    /\ UNCHANGED <<terminator, setupOut, trimOut, commitOut, openOut, checkOut,
                   batch, listOut, boundsOut, witnessOut>>

\* a slice of n copies of x
Repeat(x, n) == [i \in 1 .. n |-> x]

\* BatchCheck over four slices of lengths of their own: the same commitment, the
\* same point and the same proof throughout, each value chosen freely
BatchSlices ==
    /\ Returned(trimOut)
    /\ batchOut = NotCalled
    /\ \E nc \in 0 .. MaxBatch, np \in 0 .. MaxBatch, npr \in 0 .. MaxBatch :
       \E c \in IF nc = 0 THEN {0} ELSE G1, z \in IF np = 0 THEN {0} ELSE Fr :
       \E proof \in IF npr = 0 THEN {[w |-> 0, random_v |-> None]}
                     ELSE [w : G1, random_v : {None, Some(1)}] :
       \E values \in SeqsUpTo(Fr, MaxBatch) :
        LET in == [commitments |-> Repeat(c, nc),
                   points |-> Repeat(z, np),
                   values |-> values,
                   proofs |-> Repeat(proof, npr),
                   rng |-> rng]
            out == batch_check(trimOut.res.val.vk, in.commitments, in.points,
                               in.values, in.proofs, rng)
        IN  /\ batchOut' = CalledRng(in, out.res, out.rng)
            /\ rng' = out.rng
    /\ UNCHANGED <<terminator, setupOut, trimOut, commitOut, openOut, checkOut,
                   batch, listOut, boundsOut, witnessOut>>

\* ---- the pure functions, on inputs of their own

\* none of the three has been called in this run
PureIdle ==
    /\ checkOut = NotCalled /\ listOut = NotCalled
    /\ boundsOut = NotCalled /\ witnessOut = NotCalled

\* every verifier key over the groups
VerifierKeys ==
    {[g |-> g, gamma_g |-> gamma_g, h |-> h, beta_h |-> beta_h,
      prepared_h |-> Prepare(h), prepared_beta_h |-> Prepare(beta_h)] :
        g \in G1, gamma_g \in G1, h \in G2, beta_h \in G2}

\* Check on any verifier key, commitment, point, value and proof
CheckAny ==
    /\ PureIdle
    /\ \E vk \in VerifierKeys, commitment \in G1, point \in Fr, value \in Fr, proof \in Proofs :
        checkOut' = Called([vk |-> vk, commitment |-> commitment, point |-> point,
                            value |-> value, proof |-> proof],
                           check(vk, commitment, point, value, proof))
    /\ UNCHANGED <<rng, terminator, setupOut, trimOut, commitOut, openOut,
                   batch, batchOut, listOut, boundsOut, witnessOut>>

GetList ==
    /\ PureIdle
    /\ \E config \in AllConfigs, max_degree \in 0 .. MaxBoundDegree :
        listOut' = Called([config |-> config, max_degree |-> max_degree],
                          get_list(config, max_degree))
    /\ UNCHANGED <<rng, terminator, setupOut, trimOut, commitOut, openOut, checkOut,
                   batch, batchOut, boundsOut, witnessOut>>

\* one polynomial of every degree and the zero polynomial, labeled
LabeledPolys ==
    {LabeledPolynomial("p", polynomial, degree_bound) :
        polynomial \in {<<>>} \cup {[i \in 1 .. (d + 1) |-> 1] : d \in 0 .. MaxDegree},
        degree_bound \in {None} \cup {Some(b) : b \in 0 .. (MaxDegree + 1)}}

\* the bounds handed to the validator: none, or the list a configuration resolves to
CheckDegreesAndBounds ==
    /\ PureIdle
    /\ \E max_degree \in 1 .. MaxDegree, p \in LabeledPolys, variant \in SearchVariants :
       \E supported_degree \in 1 .. max_degree,
          enforced \in {None} \cup {Some(get_list(config, max_degree)) : config \in AllConfigs} :
        boundsOut' = Called([supported_degree |-> supported_degree, max_degree |-> max_degree,
                             enforced_degree_bounds |-> enforced, p |-> p,
                             variant |-> variant],
                            check_degrees_and_bounds(supported_degree, max_degree,
                                                     enforced, p, variant))
    /\ UNCHANGED <<rng, terminator, setupOut, trimOut, commitOut, openOut, checkOut,
                   batch, batchOut, listOut, witnessOut>>

\* ------------------------------------------------------------------ specifications

\* Setup without degree bounds, Trim, Commit with a randomness source and a clear
\* terminator, Open, Check
SetupPlain == SetupWith(0 .. MaxDegree, {ConfigNONE}, {FALSE})
Commit == CommitWith(InputPolys, HidingBounds, {FALSE}, {TRUE})
Trim == TrimWith(1 .. MaxDegree)
Next == SetupPlain \/ Trim \/ Commit \/ Open \/ Check
Spec == Init /\ [][Next]_vars

\* Setup under every configuration, then Trim
SetupAny == SetupWith(0 .. MaxDegree, AllConfigs, BOOLEAN)
NextSetup == SetupAny \/ Trim
SpecSetup == Init /\ [][NextSetup]_vars

\* Setup, Trim, then BatchCheck over any tuples
SetupMax == SetupWith({MaxDegree}, {ConfigNONE}, {FALSE})
TrimMax == TrimWith({MaxDegree})
NextBatch == SetupMax \/ TrimMax \/ BatchBegin \/ BatchTurn \/ BatchEnd
SpecBatch == Init /\ [][NextBatch]_vars

\* Setup, Trim, then Commit of a polynomial of supported degree, with or without
\* a randomness source and with any values read from the terminator, Open, and
\* BatchCheck over whole slices
CommitAny == CommitWith(Polys(MaxDegree + 1), HidingBounds, BOOLEAN, BOOLEAN)
NextCalls == SetupMax \/ TrimMax \/ CommitAny \/ Open \/ BatchCall
SpecCalls == Init /\ [][NextCalls]_vars

\* Setup, Trim, then BatchCheck over slices of any lengths
NextSlices == SetupMax \/ TrimMax \/ BatchSlices
SpecSlices == Init /\ [][NextSlices]_vars

\* Check, get_list, the degree-bound validator and compute_witness_polynomial on
\* inputs of their own, from a randomness source none of them reads
\* every Randomness: the empty one and every nonzero blinding polynomial
Randomnesses == {[blinding_polynomial |-> b] : b \in Polys(MaxDegree + 1)}

\* compute_witness_polynomial on any polynomial, point and Randomness
ComputeWitness ==
    /\ PureIdle
    /\ \E polynomial \in InputPolys, point \in Fr, randomness \in Randomnesses :
        witnessOut' = Called([polynomial |-> polynomial, point |-> point,
                              randomness |-> randomness],
                             Ok(compute_witness_polynomial(polynomial, point, randomness)))
    /\ UNCHANGED <<rng, terminator, setupOut, trimOut, commitOut, openOut, checkOut,
                   batch, batchOut, listOut, boundsOut>>

InitPure == Init /\ rng.stream = [i \in 1 .. RngLen |-> 0]
NextPure == CheckAny \/ GetList \/ CheckDegreesAndBounds \/ ComputeWitness
SpecPure == InitPure /\ [][NextPure]_vars

\* Setup, Trim, then Commit next to a thread that sets the terminator, and Open
NextCancel ==
    \/ SetupMax \/ TrimMax
    \/ CommitBegin \/ CommitPoll1 \/ CommitPoll2
    \/ SetTerminator
    \/ Open
SpecCancel == Init /\ [][NextCancel]_vars

\* ------------------------------------------------------------------ properties

\* what Setup sampled, read back from the randomness source it was handed
SampledBeta == FrRand(setupOut.in.rng)
SampledG == GRand(SampledBeta.rng)
SampledGammaG == GRand(SampledG.rng)
SampledH == GRand(SampledGammaG.rng)

\* the degree Trim worked with
EffectiveDegree ==
    IF trimOut.in.supported_degree = 1 THEN 2 ELSE trimOut.in.supported_degree

HidingAbsentOrIn(lo, hi) ==
    \/ commitOut.in.hiding_bound = None
    \/ /\ commitOut.in.hiding_bound.tag = "Some"
       /\ commitOut.in.hiding_bound.val >= lo
       /\ commitOut.in.hiding_bound.val < hi

\* C1: completeness.  With (powers, vk) = Trim(Setup(d), d), for every polynomial
\* of degree <= d and every hiding choice (absent, or a degree in [1, d)), Trim,
\* Commit and Open return and Check accepts the honest value p(z).
C1_Completeness ==
    /\ (Returned(setupOut) /\ trimOut.tag = "Called"
        /\ trimOut.in.supported_degree = setupOut.in.max_degree)
       => trimOut.res.tag = "Ok"
    /\ (Returned(trimOut) /\ trimOut.in.supported_degree = setupOut.in.max_degree
        /\ commitOut.tag = "Called"
        /\ Degree(commitOut.in.polynomial) <= setupOut.in.max_degree
        /\ HidingAbsentOrIn(1, setupOut.in.max_degree))
       => /\ commitOut.res.tag = "Ok"
          /\ openOut.tag = "Called" => openOut.res.tag = "Ok"
          /\ (checkOut.tag = "Called" /\ checkOut.in.delta = 0)
             => checkOut.res = Ok(TRUE)

\* C2: soundness spot-check.  For a commitment and a proof that Commit and Open
\* produced for p at z, Check of the value p(z) + delta returns false, and not
\* an error, for every nonzero delta.
C2_PerturbedValueRejected ==
    (checkOut.tag = "Called" /\ checkOut.in.delta # 0) => checkOut.res = Ok(FALSE)

C2_Witness ==
    /\ checkOut.tag = "Called" /\ checkOut.in.delta # 0
    /\ commitOut.in.hiding_bound.tag = "Some"
    /\ Degree(commitOut.in.polynomial) = MaxDegree

\* C3: batch completeness.  BatchCheck over tuples that each pass Check returns
\* true, whatever their number and whatever randomizers the source produced.
C3_BatchOfValidTuplesAccepted ==
    (batch.tag = "Called" /\ batch.failed = 0) => batch.res = Ok(TRUE)

C3_Witness ==
    /\ batch.tag = "Called" /\ batch.failed = 0 /\ batch.n = MaxBatch
    /\ batch.acc.gamma_g_multiplier # 0 /\ batch.acc.total_w # 0

\* C4: batch soundness.  When exactly one tuple of the batch carries a value other
\* than the one Check accepts, BatchCheck returns false unless the randomizer
\* applied to that tuple is zero: the only wrong 'true' is the one randomizer
\* value in 2^128, and the first tuple (randomizer 1) is never missed.
C4_OneBadValueRejected ==
    (batch.tag = "Called" /\ batch.failed = 1)
    => (batch.res = Ok(FALSE) <=> batch.failed_randomizer # 0)

C4_Witness ==
    /\ batch.tag = "Called" /\ batch.failed = 1 /\ batch.n = MaxBatch
    /\ batch.res = Ok(FALSE)

\* C5 as stated: Commit and Open on a polynomial whose degree is greater than the
\* requested supported_degree return TooManyCoefficients.
C5_RejectsAboveRequestedDegree ==
    /\ (commitOut.tag = "Called"
        /\ Degree(commitOut.in.polynomial) > trimOut.in.supported_degree)
       => IsErr(commitOut.res, "TooManyCoefficients")
    /\ (openOut.tag = "Called"
        /\ Degree(commitOut.in.polynomial) > trimOut.in.supported_degree)
       => IsErr(openOut.res, "TooManyCoefficients")

\* C5 amended: Commit and Open on a polynomial whose degree is greater than the
\* effective degree of Trim (2 for a requested degree of 1) return
\* TooManyCoefficients and neither a commitment nor a proof.
C5_RejectsAboveEffectiveDegree ==
    /\ (commitOut.tag = "Called" /\ Degree(commitOut.in.polynomial) > EffectiveDegree)
       => IsErr(commitOut.res, "TooManyCoefficients")
    /\ (openOut.tag = "Called" /\ Degree(commitOut.in.polynomial) > EffectiveDegree)
       => IsErr(openOut.res, "TooManyCoefficients")

C5_Witness ==
    /\ openOut.tag = "Called"
    /\ trimOut.in.supported_degree = 1
    /\ Degree(commitOut.in.polynomial) > EffectiveDegree
    /\ commitOut.in.hiding_bound.tag = "Some"

NonHidingCommit(powers, p) == commit(powers, p, None, FALSE, FALSE, None).res

\* C6: additive homomorphism.  For the non-hiding Commit of a polynomial of
\* supported degree and every way of writing it as a*p1 + b*p2 with p1, p2 of
\* supported degree, the three commitments exist and
\* Commit(a*p1 + b*p2) = a*Commit(p1) + b*Commit(p2).
C6_AdditiveHomomorphism ==
    (commitOut.tag = "Called" /\ commitOut.in.hiding_bound = None
     /\ Degree(commitOut.in.polynomial) <= EffectiveDegree)
    => \A a \in Fr, b \in Fr :
       \A p1 \in Polys(EffectiveDegree + 1), p2 \in Polys(EffectiveDegree + 1) :
          PolyLinComb(a, p1, b, p2) = commitOut.in.polynomial
          => LET c1 == NonHidingCommit(trimOut.res.val.powers, p1)
                 c2 == NonHidingCommit(trimOut.res.val.powers, p2)
             IN  /\ c1.tag = "Ok" /\ c2.tag = "Ok" /\ commitOut.res.tag = "Ok"
                 /\ commitOut.res.val.commitment =
                        GAdd(GMul(c1.val.commitment, a), GMul(c2.val.commitment, b))

\* C7: Setup with max_degree < 1 returns DegreeIsZero under every configuration
\* and flag, and leaves the randomness source as it found it.
C7_DegreeIsZero ==
    (setupOut.tag = "Called" /\ setupOut.in.max_degree < 1)
    => /\ setupOut.res = Err("DegreeIsZero")
       /\ setupOut.rng = setupOut.in.rng

C7_Witness ==
    /\ setupOut.tag = "Called" /\ setupOut.in.max_degree = 0
    /\ setupOut.in.config.kind = "LIST" /\ setupOut.in.produce_g2_powers

\* C8: for every max_degree >= 1, every configuration and either flag, Setup
\* returns parameters.
C8_SetupAlwaysReturns ==
    (setupOut.tag = "Called" /\ setupOut.in.max_degree >= 1) => setupOut.res.tag = "Ok"

\* C9: shape of the parameters.  powers_of_g has max_degree + 1 entries beta^i * g,
\* powers_of_gamma_g has the keys 0 .. max_degree + 1 with entries beta^i * gamma_g,
\* and beta_h = beta * h.
C9_ParametersShape ==
    Returned(setupOut) =>
        LET pp == setupOut.res.val
            max_degree == setupOut.in.max_degree
        IN  /\ Len(pp.powers_of_g) = max_degree + 1
            /\ \A i \in 0 .. max_degree :
                   pp.powers_of_g[i + 1] = GMul(SampledG.val, FPow(SampledBeta.val, i))
            /\ DOMAIN pp.powers_of_gamma_g = 0 .. (max_degree + 1)
            /\ \A i \in 0 .. (max_degree + 1) :
                   pp.powers_of_gamma_g[i] = GMul(SampledGammaG.val, FPow(SampledBeta.val, i))
            /\ pp.h = SampledH.val
            /\ pp.beta_h = GMul(SampledH.val, SampledBeta.val)

C9_Witness ==
    /\ Returned(setupOut) /\ setupOut.in.max_degree = MaxDegree
    /\ SampledBeta.val > 1 /\ SampledGammaG.val # SampledG.val

\* C10: output of Trim.  With d' = 2 for a requested degree of 1 and the requested
\* degree otherwise, Trim returns whenever d' <= max_degree, and what it returns is
\* the entries 0 ..= d' of both sequences (Powers.size() = d' + 1) and a verifier
\* key made of entry 0 of each and of h, beta_h and their prepared forms.
C10_TrimOutput ==
    trimOut.tag = "Called" =>
        LET pp == setupOut.res.val
            d == EffectiveDegree
        IN  /\ d <= setupOut.in.max_degree => trimOut.res.tag = "Ok"
            /\ trimOut.res.tag = "Ok" =>
                LET powers == trimOut.res.val.powers
                    vk == trimOut.res.val.vk
                IN  /\ PowersSize(powers) = d + 1
                    /\ Len(powers.powers_of_g) = d + 1
                    /\ Len(powers.powers_of_gamma_g) = d + 1
                    /\ \A i \in 0 .. d :
                        /\ powers.powers_of_g[i + 1] = pp.powers_of_g[i + 1]
                        /\ powers.powers_of_gamma_g[i + 1] = pp.powers_of_gamma_g[i]
                    /\ vk.g = pp.powers_of_g[1]
                    /\ vk.gamma_g = pp.powers_of_gamma_g[0]
                    /\ vk.h = pp.h /\ vk.beta_h = pp.beta_h
                    /\ vk.prepared_h = pp.prepared_h
                    /\ vk.prepared_beta_h = pp.prepared_beta_h

C10_Witness ==
    /\ Returned(trimOut) /\ trimOut.in.supported_degree = 1
    /\ setupOut.in.config.kind = "MARLIN"

\* C11: Trim returns for every requested degree in range.  For parameters that
\* Setup(max_degree) returned and every requested degree d with
\* 1 <= d <= max_degree, max_degree = 1 and d = 1 included, Trim returns a
\* (Powers, VerifierKey) pair.
C11_TrimReturnsInRange ==
    (trimOut.tag = "Called"
     /\ trimOut.in.supported_degree >= 1
     /\ trimOut.in.supported_degree <= setupOut.in.max_degree)
    => /\ trimOut.res.tag = "Ok"
       /\ DOMAIN trimOut.res.val = {"powers", "vk"}

\* the polynomial handed to Commit passed the degree check
DegreeCheckPassed ==
    check_degree_is_too_large(Degree(commitOut.in.polynomial),
                              PowersSize(trimOut.res.val.powers)).tag = "Ok"
\* the terminator was clear at every load Commit made
FlagClear == \A i \in 1 .. Len(commitOut.in.loads) : ~commitOut.in.loads[i].flag

\* C12: validation of the hiding bound.  When Commit is handed a hiding degree h
\* and a randomness source, the degree check passed and the flag is clear, it
\* returns HidingBoundIsZero for h = 0, HidingBoundToolarge for h not smaller
\* than the number of powers_of_gamma_g, and otherwise a commitment together
\* with a blinding polynomial of degree exactly h, leading coefficient nonzero.
C12_HidingBoundValidation ==
    (commitOut.tag = "Called" /\ DegreeCheckPassed /\ FlagClear
     /\ commitOut.in.hiding_bound.tag = "Some" /\ commitOut.in.rng_opt.tag = "Some")
    => LET h == commitOut.in.hiding_bound.val
           n == Len(trimOut.res.val.powers.powers_of_gamma_g)
           res == commitOut.res
       IN  /\ h = 0 => res = Err("HidingBoundIsZero")
           /\ h >= n => res = HidingBoundToolarge(h, n)
           /\ (h >= 1 /\ h < n) =>
                /\ res.tag = "Ok"
                /\ LET blinding == res.val.randomness.blinding_polynomial
                   IN  Len(blinding) = h + 1 /\ blinding[h + 1] # 0

\* C13: a randomness source is required exactly when hiding is requested.  With
\* the degree check passed and the flag clear, Commit returns MissingRng if and
\* only if a hiding degree is supplied and no randomness source is, and a
\* non-hiding Commit without a randomness source returns a commitment.
C13_MissingRngExactlyWhenHiding ==
    (commitOut.tag = "Called" /\ DegreeCheckPassed /\ FlagClear)
    => /\ commitOut.res = Err("MissingRng")
          <=> (commitOut.in.hiding_bound.tag = "Some" /\ commitOut.in.rng_opt = None)
       /\ (commitOut.in.hiding_bound = None /\ commitOut.in.rng_opt = None)
          => commitOut.res.tag = "Ok"

\* C14: cancellation of Commit under every interleaving with the thread that
\* sets the flag.  Commit loads the flag at most twice; if the flag is set at
\* either load Commit returns Terminated, with no commitment and no
\* randomness, and a Commit that returns a commitment made both loads and the
\* flag was clear at both.
C14_TerminatedAtEitherLoad ==
    /\ commitOut.tag \in {"Running", "Called"} => Len(commitOut.in.loads) <= 2
    /\ commitOut.tag = "Called" =>
        /\ (\E i \in 1 .. Len(commitOut.in.loads) : commitOut.in.loads[i].flag)
           => commitOut.res = Err("Terminated")
        /\ commitOut.res.tag = "Ok"
           => /\ Len(commitOut.in.loads) = 2
              /\ ~commitOut.in.loads[1].flag /\ ~commitOut.in.loads[2].flag

C14_Witness ==
    /\ commitOut.tag = "Called" /\ Len(commitOut.in.loads) = 2
    /\ ~commitOut.in.loads[1].flag /\ commitOut.in.loads[2].flag
    /\ commitOut.in.hiding_bound.tag = "Some"
    /\ commitOut.res = Err("Terminated")

\* C15: cancellation of Open.  An Open that runs with the flag set observes it
\* between its two MSMs and aborts: it does not return a proof.
C15_OpenTerminated ==
    (openOut.tag = "Called" /\ openOut.in.terminator) => openOut.res.tag # "Ok"

\* C16: Check is a total boolean decision.  For every verifier key, commitment,
\* point z, value v and proof it returns a boolean and no error, and the boolean
\* is true exactly when
\*   pairing(commitment - v*g - random_v*gamma_g, h) = pairing(w, beta_h - z*h),
\* the random_v term present only when the proof carries random_v.
C16_CheckIsThePairingEquation ==
    (checkOut.tag = "Called" /\ "vk" \in DOMAIN checkOut.in) =>
        LET vk == checkOut.in.vk
            proof == checkOut.in.proof
            blinding == IF proof.random_v = None THEN 0
                        ELSE GMul(vk.gamma_g, proof.random_v.val)
            left == GSub(GSub(checkOut.in.commitment, GMul(vk.g, checkOut.in.value)), blinding)
            right == GSub(vk.beta_h, GMul(vk.h, checkOut.in.point))
        IN  /\ checkOut.res.tag = "Ok"
            /\ checkOut.res.val \in BOOLEAN
            /\ checkOut.res.val <=> (Pairing(left, vk.h) = Pairing(proof.w, right))

C16_Witness ==
    /\ checkOut.tag = "Called" /\ "vk" \in DOMAIN checkOut.in
    /\ checkOut.res = Ok(TRUE)
    /\ checkOut.in.proof.random_v.tag = "Some" /\ checkOut.in.proof.random_v.val # 0
    /\ checkOut.in.proof.w # 0 /\ checkOut.in.point # 0 /\ checkOut.in.value # 0
    /\ checkOut.in.vk.h # 0 /\ checkOut.in.vk.gamma_g # 0

RECURSIVE Pow2(_)
Pow2(k) == IF k = 0 THEN 1 ELSE 2 * Pow2(k - 1)

\* C17: resolution of the degree-bound configuration.  For every max_degree,
\* get_list returns 0, 1, ..., max_degree - 1 for ALL; the values 2^k - 2, k = 1,
\* 2, ... in this order, as long as 2^k - 2 <= max_degree, for MARLIN; the list as
\* given for LIST; the empty list for NONE.
C17_GetListResolution ==
    listOut.tag = "Called" =>
        LET config == listOut.in.config
            max_degree == listOut.in.max_degree
            list == listOut.res
        IN  /\ config.kind = "ALL" =>
                /\ Len(list) = max_degree
                /\ \A k \in 1 .. Len(list) : list[k] = k - 1
            /\ config.kind = "MARLIN" =>
                /\ \A k \in 1 .. Len(list) : list[k] = Pow2(k) - 2 /\ list[k] <= max_degree
                /\ Pow2(Len(list) + 1) - 2 > max_degree
            /\ config.kind = "LIST" => list = config.list
            /\ config.kind = "NONE" => list = <<>>

C17_Witness ==
    /\ listOut.tag = "Called" /\ listOut.in.config.kind = "MARLIN"
    /\ listOut.in.max_degree = 6 /\ listOut.res = <<0, 2, 6>>

\* C18: the degree-bound validator.  For a labeled polynomial p with degree
\* bound b and any enforced bounds (none, or the list any configuration
\* resolves to, an explicit list in the order given), the validator returns
\* UnsupportedDegreeBound(b) exactly when b is not in the list (or there is no
\* list); otherwise IncorrectDegreeBound with p's degree, b and p's label exactly
\* when b < degree(p) or b > max_degree; otherwise Ok.  A polynomial without a
\* degree bound passes.
C18_DegreeBoundValidator ==
    boundsOut.tag = "Called" =>
        LET in == boundsOut.in
            p == in.p
            res == boundsOut.res
        IN  IF p.degree_bound = None THEN res.tag = "Ok"
            ELSE LET b == p.degree_bound.val
                     member == /\ in.enforced_degree_bounds.tag = "Some"
                               /\ \E k \in 1 .. Len(in.enforced_degree_bounds.val) :
                                      in.enforced_degree_bounds.val[k] = b
                     incorrect == b < Degree(p.polynomial) \/ b > in.max_degree
                 IN  /\ res = UnsupportedDegreeBound(b) <=> ~member
                     /\ member =>
                         /\ incorrect <=> IsErr(res, "IncorrectDegreeBound")
                         /\ incorrect =>
                             /\ res.poly_degree = Degree(p.polynomial)
                             /\ res.degree_bound = b /\ res.label = p.label
                         /\ ~incorrect => res.tag = "Ok"

\* C19: degree-bound material of the parameters.  After a Setup with a
\* configuration other than NONE, supported_degree_bounds is the resolved list,
\* inverse_powers_of_g has exactly the resolved bounds as keys, with
\* inverse_powers_of_g[i] = powers_of_g[max_degree - i], and
\* inverse_neg_powers_of_h has the same keys when group-2 powers were requested
\* and is empty otherwise; with NONE all three are empty.
C19_DegreeBoundMaterial ==
    Returned(setupOut) =>
        LET pp == setupOut.res.val
            max_degree == setupOut.in.max_degree
            list == get_list(setupOut.in.config, max_degree)
            bounds == {list[k] : k \in 1 .. Len(list)}
        IN  IF setupOut.in.config = ConfigNONE
            THEN /\ pp.supported_degree_bounds = <<>>
                 /\ DOMAIN pp.inverse_powers_of_g = {}
                 /\ DOMAIN pp.inverse_neg_powers_of_h = {}
            ELSE /\ pp.supported_degree_bounds = list
                 /\ DOMAIN pp.inverse_powers_of_g = bounds
                 /\ \A i \in bounds :
                        pp.inverse_powers_of_g[i] = pp.powers_of_g[(max_degree - i) + 1]
                 /\ DOMAIN pp.inverse_neg_powers_of_h =
                        IF setupOut.in.produce_g2_powers THEN bounds ELSE {}

C19_Witness ==
    /\ Returned(setupOut) /\ setupOut.in.produce_g2_powers
    /\ setupOut.in.config.kind = "LIST"
    /\ DOMAIN setupOut.res.val.inverse_neg_powers_of_h = {0, 1}
    /\ setupOut.res.val.inverse_powers_of_g[0] # setupOut.res.val.inverse_powers_of_g[1]

\* The blinding polynomial of the Randomness handed to Open
OpenBlinding == openOut.in.rand.blinding_polynomial

\* C21: every proof returned by Open carries random_v equal to the blinding
\* polynomial evaluated at the opening point when the Randomness is hiding and
\* no random_v when the Randomness is empty; so a proof for a returned
\* commitment carries random_v exactly when the commitment was hidden.
C21_RandomVIffHiding ==
    Returned(openOut) =>
        /\ IsHiding(openOut.in.rand) =>
                openOut.res.val.random_v = Some(Evaluate(OpenBlinding, openOut.in.point))
        /\ ~IsHiding(openOut.in.rand) => openOut.res.val.random_v = None
        /\ Returned(commitOut) =>
                (openOut.res.val.random_v.tag = "Some"
                    <=> commitOut.in.hiding_bound.tag = "Some")

\* a proof for a hidden commitment whose blinding polynomial is not zero at
\* the opening point
C21_Witness ==
    /\ Returned(commitOut) /\ Returned(openOut)
    /\ commitOut.in.hiding_bound = Some(2)
    /\ openOut.in.point = 2
    /\ Degree(OpenBlinding) = 2
    /\ openOut.res.val.random_v.tag = "Some"
    /\ openOut.res.val.random_v.val # 0

\* C22: for every polynomial p and point z, p(x) = (x - z) * w(x) + p(z) for the
\* witness polynomial w computed by compute_witness_polynomial, and the same
\* for the blinding polynomial and its witness when the Randomness is hiding.
C22_WitnessQuotient ==
    witnessOut.tag = "Called" =>
        LET p == witnessOut.in.polynomial
            z == witnessOut.in.point
            r == witnessOut.in.randomness.blinding_polynomial
            out == witnessOut.res.val
        IN  /\ witnessOut.res.tag = "Ok"
            /\ MulLinearAdd(out.witness_polynomial, z, Evaluate(p, z)) = p
            /\ IsHiding(witnessOut.in.randomness) =>
                    /\ out.random_witness_polynomial.tag = "Some"
                    /\ MulLinearAdd(out.random_witness_polynomial.val, z, Evaluate(r, z)) = r

\* a polynomial of the largest degree with a nonzero remainder at a nonzero
\* point, next to a hiding Randomness of degree two
C22_Witness ==
    /\ witnessOut.tag = "Called"
    /\ Degree(witnessOut.in.polynomial) = MaxDegree + 1
    /\ witnessOut.in.point # 0
    /\ Evaluate(witnessOut.in.polynomial, witnessOut.in.point) # 0
    /\ Degree(witnessOut.in.randomness.blinding_polynomial) >= 1
    /\ witnessOut.res.val.random_witness_polynomial.tag = "Some"
    /\ Degree(witnessOut.res.val.witness_polynomial) = MaxDegree

RECURSIVE CombinationFrom(_, _, _)
\* coeffs[i] * bases[i] + ... + coeffs[n] * bases[n], n the number of coefficients
CombinationFrom(bases, coeffs, i) ==
    IF i > Len(coeffs) THEN 0
    ELSE GAdd(GMul(bases[i], coeffs[i]), CombinationFrom(bases, coeffs, i + 1))
\* the sum over every coefficient, zero ones included
Combination(bases, coeffs) == CombinationFrom(bases, coeffs, 1)

\* C23: a successful Commit returns sum_i p_i * powers_of_g[i] +
\* sum_j r_j * powers_of_gamma_g[j] for the Randomness r it returns; without a
\* hiding degree r is the empty Randomness and the commitment is the plaintext
\* sum; the commitment and the non-hiding commitment of the same polynomial
\* differ by the commitment to r.
C23_CommitmentComposition ==
    Returned(commitOut) =>
        LET powers == trimOut.res.val.powers
            p == commitOut.in.polynomial
            r == commitOut.res.val.randomness.blinding_polynomial
            plain_sum == Combination(powers.powers_of_g, p)
            blinding_sum == Combination(powers.powers_of_gamma_g, r)
            plain == NonHidingCommit(powers, p)
        IN  /\ commitOut.res.val.commitment = GAdd(plain_sum, blinding_sum)
            /\ commitOut.in.hiding_bound = None =>
                    /\ commitOut.res.val.randomness = RandomnessEmpty
                    /\ commitOut.res.val.commitment = plain_sum
            /\ plain.tag = "Ok"
            /\ plain.val.randomness = RandomnessEmpty
            /\ GSub(commitOut.res.val.commitment, plain.val.commitment) = blinding_sum

\* a hidden commitment of a polynomial of degree two whose blinding sum is not
\* the identity
C23_Witness ==
    /\ Returned(commitOut)
    /\ commitOut.in.hiding_bound = Some(1)
    /\ Degree(commitOut.in.polynomial) = 2
    /\ commitOut.in.polynomial[1] = 0
    /\ Degree(commitOut.res.val.randomness.blinding_polynomial) = 1
    /\ commitOut.res.val.commitment # NonHidingCommit(trimOut.res.val.powers,
                                                      commitOut.in.polynomial).val.commitment
    /\ commitOut.res.val.commitment # 0

\* C24: skipping the leading zero coefficients preserves the result.  For every
\* polynomial of supported degree the non-hiding Commit returns the sum over
\* all its coefficients against powers_of_g[0..], and for a Randomness that is
\* not hiding Open returns the sum over all the coefficients of the witness
\* polynomial.
C24_SkippingPreservesTheResult ==
    /\ (commitOut.tag = "Called" /\ commitOut.in.hiding_bound = None
        /\ DegreeCheckPassed)
       => /\ commitOut.res.tag = "Ok"
          /\ commitOut.res.val.commitment =
                Combination(trimOut.res.val.powers.powers_of_g, commitOut.in.polynomial)
    /\ (openOut.tag = "Called" /\ ~IsHiding(openOut.in.rand) /\ DegreeCheckPassed)
       => /\ openOut.res.tag = "Ok"
          /\ openOut.res.val.w =
                Combination(trimOut.res.val.powers.powers_of_g,
                            DivLinear(commitOut.in.polynomial, openOut.in.point))

\* C27: zero-polynomial safety.  The coefficient scan never reads past the
\* coefficient vector, so neither Commit (on the zero polynomial) nor Open (on
\* a constant polynomial, whose witness is the zero polynomial) aborts.
C27_ZeroPolynomialSafety ==
    /\ commitOut.tag = "Called" => commitOut.res.tag # "Panic"
    /\ openOut.tag = "Called" => openOut.res.tag # "Panic"

\* the number of tuples the zipped slices of the recorded BatchCheck call give
BatchTuples ==
    LET in == batchOut.in
        n == {Len(in.commitments), Len(in.points), Len(in.values), Len(in.proofs)}
    IN  CHOOSE k \in n : \A j \in n : k <= j

\* r_i for the tuple at position i (counted from 1): one for the first tuple,
\* then the values drawn one after the other from the source handed to the call
BatchRandomizer(i) ==
    IF i = 1 THEN 1
    ELSE RngOut([batchOut.in.rng EXCEPT !.pos = batchOut.in.rng.pos + (i - 2)])

RECURSIVE GroupSum(_, _)
\* f[1] + ... + f[n] in G1
GroupSum(f, n) == IF n = 0 THEN 0 ELSE GAdd(GroupSum(f, n - 1), f[n])
RECURSIVE FieldSum(_, _)
\* f[1] + ... + f[n] in Fr
FieldSum(f, n) == IF n = 0 THEN 0 ELSE FAdd(FieldSum(f, n - 1), f[n])

\* Check on the tuple at position i of the recorded BatchCheck call
TupleVerifies(i) ==
    check(trimOut.res.val.vk, batchOut.in.commitments[i], batchOut.in.points[i],
          batchOut.in.values[i], batchOut.in.proofs[i]).val

\* C25: the batch equation.  With r_0 = 1 and r_i the i-th value drawn,
\* BatchCheck returns true exactly when
\* pairing(sum r_i*w_i, beta_h) = pairing(sum r_i*(c_i + z_i*w_i)
\*     - (sum r_i*v_i)*g - (sum r_i*random_v_i)*gamma_g, h),
\* an absent random_v_i counting as zero.
C25_BatchEquation ==
    batchOut.tag = "Called" =>
        LET in == batchOut.in
            vk == trimOut.res.val.vk
            m == BatchTuples
            rw == [i \in 1 .. m |-> GMul(in.proofs[i].w, BatchRandomizer(i))]
            rc == [i \in 1 .. m |->
                     GMul(GAdd(in.commitments[i], GMul(in.proofs[i].w, in.points[i])),
                          BatchRandomizer(i))]
            rv == [i \in 1 .. m |-> FMul(BatchRandomizer(i), in.values[i])]
            rrv == [i \in 1 .. m |->
                      IF in.proofs[i].random_v.tag = "Some"
                      THEN FMul(BatchRandomizer(i), in.proofs[i].random_v.val)
                      ELSE 0]
            left == Pairing(GroupSum(rw, m), vk.beta_h)
            right == Pairing(GSub(GSub(GroupSum(rc, m), GMul(vk.g, FieldSum(rv, m))),
                                  GMul(vk.gamma_g, FieldSum(rrv, m))),
                             vk.h)
        IN  batchOut.res = Ok(left = right)

\* an accepted batch of two tuples with random_v, a nonzero second randomizer
\* and a witness element other than the identity
C25_Witness ==
    /\ batchOut.tag = "Called"
    /\ BatchTuples = 2
    /\ BatchRandomizer(2) # 0
    /\ batchOut.in.proofs[1].w # 0
    /\ batchOut.in.proofs[1].random_v.tag = "Some"
    /\ batchOut.in.values[1] # batchOut.in.values[2]
    /\ batchOut.res = Ok(TRUE)

\* C26: BatchCheck on a batch of one tuple returns what Check returns on that
\* tuple, for every state of the randomness source; and a batch in which the
\* first tuple is the only one Check rejects is rejected, whatever the other
\* randomizers are.
C26_SingleTupleBatchIsCheck ==
    batchOut.tag = "Called" =>
        /\ BatchTuples = 1 => batchOut.res = Ok(TupleVerifies(1))
        /\ (/\ BatchTuples >= 1
            /\ ~TupleVerifies(1)
            /\ \A i \in 2 .. BatchTuples : TupleVerifies(i))
           => batchOut.res = Ok(FALSE)

\* a rejected batch of two tuples of which Check rejects the first only, the
\* second randomizer not zero
C26_Witness ==
    /\ batchOut.tag = "Called"
    /\ BatchTuples = 2
    /\ ~TupleVerifies(1) /\ TupleVerifies(2)
    /\ BatchRandomizer(2) # 0
    /\ batchOut.res = Ok(FALSE)

\* the first n entries of a slice
Prefix(s, n) == SubSeq(s, 1, n)

\* C28: BatchCheck never returns an error, whatever the lengths of its four
\* slices; its result, and the state it leaves the randomness source in, are
\* those of the call on the first m entries of each slice, m the shortest of
\* the four lengths; with m = 0 it returns true.
C28_ShortestLengthDecides ==
    batchOut.tag = "Called" =>
        LET in == batchOut.in
            m == BatchTuples
            cut == batch_check(trimOut.res.val.vk, Prefix(in.commitments, m),
                               Prefix(in.points, m), Prefix(in.values, m),
                               Prefix(in.proofs, m), in.rng)
        IN  /\ batchOut.res.tag = "Ok"
            /\ batchOut.res.val \in BOOLEAN
            /\ batchOut.res = cut.res
            /\ batchOut.rng = cut.rng
            /\ batchOut.rng.pos = in.rng.pos + m
            /\ m = 0 => batchOut.res = Ok(TRUE)

\* slices of different lengths whose first tuple verifies while an entry beyond
\* the shortest length claims another value
C28_Witness ==
    /\ batchOut.tag = "Called"
    /\ Len(batchOut.in.points) = 1
    /\ Len(batchOut.in.commitments) = 2
    /\ Len(batchOut.in.values) = 2
    /\ Len(batchOut.in.proofs) = 0 + MaxBatch
    /\ batchOut.in.values[1] # batchOut.in.values[2]
    /\ batchOut.in.proofs[1].w # 0
    /\ batchOut.res = Ok(TRUE)

\* C29: the order of Commit's failure conditions.  An over-degree polynomial
\* gives TooManyCoefficients before any load of the flag, whatever the flag and
\* the randomness source are.  Every other Commit reaches its first load; a set
\* flag there gives Terminated, also for a hiding Commit without a randomness
\* source; with the flag clear there, a hiding Commit without a source gives
\* MissingRng, and one with a source and a hiding degree of zero or not below
\* the number of powers_of_gamma_g gives HidingBoundIsZero or
\* HidingBoundToolarge, each before the second load.
C29_FailureOrder ==
    commitOut.tag = "Called" =>
        LET in == commitOut.in
            res == commitOut.res
            n == Len(trimOut.res.val.powers.powers_of_gamma_g)
            hiding == in.hiding_bound.tag = "Some"
        IN  /\ ~DegreeCheckPassed =>
                /\ IsErr(res, "TooManyCoefficients")
                /\ Len(in.loads) = 0
            /\ DegreeCheckPassed =>
                /\ Len(in.loads) >= 1
                /\ in.loads[1].flag => res = Err("Terminated") /\ Len(in.loads) = 1
                /\ (~in.loads[1].flag /\ hiding /\ in.rng_opt = None)
                   => res = Err("MissingRng") /\ Len(in.loads) = 1
                /\ (~in.loads[1].flag /\ hiding /\ in.rng_opt # None
                    /\ in.hiding_bound.val = 0)
                   => res = Err("HidingBoundIsZero") /\ Len(in.loads) = 1
                /\ (~in.loads[1].flag /\ hiding /\ in.rng_opt # None
                    /\ in.hiding_bound.val >= n)
                   => IsErr(res, "HidingBoundToolarge") /\ Len(in.loads) = 1

\* C30: for the exhaustive and the power-of-two configuration and every
\* max_degree >= 1 the resolved list is strictly increasing and every bound is
\* at most max_degree; so the index max_degree - i Setup reads powers_of_g at
\* (max_degree + 1 entries) is in range for every bound i, and the binary
\* search of the validator finds every member of the list.
C30_ResolvedListSortedAndInRange ==
    (/\ listOut.tag = "Called"
     /\ listOut.in.config.kind \in {"ALL", "MARLIN"}
     /\ listOut.in.max_degree >= 1)
    => LET list == listOut.res
           max_degree == listOut.in.max_degree
       IN  /\ \A i \in 1 .. (Len(list) - 1) : list[i] < list[i + 1]
           /\ \A i \in 1 .. Len(list) :
                /\ list[i] >= 0 /\ list[i] <= max_degree
                /\ (max_degree - list[i]) \in 0 .. max_degree
                /\ \A variant \in SearchVariants : binary_search(list, list[i], variant)

\* the power-of-two list of a max_degree that is itself a bound: <<0, 2, 6>>,
\* whose last bound reads powers_of_g at index 0
C30_Witness ==
    /\ listOut.tag = "Called"
    /\ listOut.in.config.kind = "MARLIN"
    /\ listOut.in.max_degree = 6
    /\ Len(listOut.res) = 3
    /\ listOut.res[3] = listOut.in.max_degree
====
